---- MODULE Spec2Model ----
(***************************************************************************)
(* A model of src/data_analysis.py: the loader, the categorical expander,  *)
(* the three reporters and run_full_analysis.                               *)
(*                                                                         *)
(* A table (DataFrame) is a sequence of rows; a row is a record whose      *)
(* field idx is the DataFrame index label of the row.  A cell of a text    *)
(* column is a string, handled character by character with Len and SubSeq. *)
(* The console is the sequence out of printed lines and shown charts.      *)
(***************************************************************************)
EXTENDS Integers, Sequences, FiniteSets, TLC

VARIABLES
    files,      \* the file system: path -> the rows of the CSV file, or NoFile
    df,         \* the caller's frame: None, or the table the loader returned
    pc,         \* position of the driver
    out,        \* the console
    res1,       \* what objective_1_content_type_evolution computed
    res2,       \* what objective_2_genre_popularity computed
    res3,       \* what objective_3_country_contribution computed
    exploded,   \* what a direct call of explode_data_for_counting returned
    loaded      \* history: the rows of the table as the loader returned it

vars == <<files, df, pc, out, res1, res2, res3, exploded, loaded>>

-----------------------------------------------------------------------------
(* Bounds of the model *)

MaxRows == 2

MaxTopN == 1

MaxTags == 3

-----------------------------------------------------------------------------
(* Program constants *)

FILE_PATH == "Netflix Dataset.csv"

MISSING == "Missing"

SEPARATOR == ", "

UNITED_STATES == "United States"

MOVIE == "Movie"

TV_SHOW == "TV Show"

DEFAULT_TOP_N == 10

TREND_YEAR == 2014

TREND_SPAN == 10

RECENT_SPAN == 3

\* A frame the driver holds: None, or a DataFrame with its rows
None == [kind |-> "None"]

Frame(table) == [kind |-> "DataFrame", rows |-> table]

\* What a path resolves to: nothing, or a CSV file with its rows
NoFile == [kind |-> "no file"]

CsvFile(rows) == [kind |-> "csv", rows |-> rows]

NotRun == [status |-> "not run"]

\* pandas' missing value; read_csv never yields it as a string, because the
\* text NaN is itself one of the texts read_csv reads as missing.
NaN == "NaN"

NA_VALUES == {"", "NA", "NaN", "null"}

WHITESPACE == {" ", "\t", "\n"}

-----------------------------------------------------------------------------
(* Sequences and strings *)

Range(s) == {s[i] : i \in 1..Len(s)}

RECURSIVE Concat(_)
Concat(ss) == IF ss = <<>> THEN <<>> ELSE Head(ss) \o Concat(Tail(ss))

SetMax(S) == CHOOSE x \in S : \A y \in S : y <= x

SetMin(S) == CHOOSE x \in S : \A y \in S : x <= y

RECURSIVE SortedInts(_)
SortedInts(S) == IF S = {} THEN <<>> ELSE <<SetMin(S)>> \o SortedInts(S \ {SetMin(S)})

\* str.find: the first position where sep occurs in s, 0 when it does not
RECURSIVE StrFindFrom(_, _, _)
StrFindFrom(s, sep, i) ==
    IF i + Len(sep) - 1 > Len(s) THEN 0
    ELSE IF SubSeq(s, i, i + Len(sep) - 1) = sep THEN i
    ELSE StrFindFrom(s, sep, i + 1)

StrFind(s, sep) == StrFindFrom(s, sep, 1)

\* str.split(sep): the pieces between the occurrences of sep, left to right
RECURSIVE StrSplit(_, _)
StrSplit(s, sep) ==
    LET i == StrFind(s, sep)
    IN IF i = 0 THEN <<s>>
       ELSE <<SubSeq(s, 1, i - 1)>> \o StrSplit(SubSeq(s, i + Len(sep), Len(s)), sep)

\* str.strip(): s without its leading and trailing whitespace
StrStrip(s) ==
    LET solid == {i \in 1..Len(s) : SubSeq(s, i, i) \notin WHITESPACE}
    IN IF solid = {} THEN "" ELSE SubSeq(s, SetMin(solid), SetMax(solid))

\* sep.join(parts)
RECURSIVE StrJoin(_, _)
StrJoin(parts, sep) ==
    IF Len(parts) = 0 THEN ""
    ELSE IF Len(parts) = 1 THEN parts[1]
    ELSE parts[1] \o sep \o StrJoin(Tail(parts), sep)

DigitValue(c) ==
    CASE c = "0" -> 0 [] c = "1" -> 1 [] c = "2" -> 2 [] c = "3" -> 3 [] c = "4" -> 4
      [] c = "5" -> 5 [] c = "6" -> 6 [] c = "7" -> 7 [] c = "8" -> 8 [] c = "9" -> 9
      [] OTHER -> -1

IsDigits(s) == Len(s) > 0 /\ \A i \in 1..Len(s) : DigitValue(SubSeq(s, i, i)) >= 0

RECURSIVE ParseInt(_)
ParseInt(s) ==
    IF Len(s) = 0 THEN 0
    ELSE 10 * ParseInt(SubSeq(s, 1, Len(s) - 1)) + DigitValue(SubSeq(s, Len(s), Len(s)))

\* pd.to_datetime on one cell in the form YYYY-MM-DD
IsDate(s) ==
    /\ Len(s) = 10
    /\ SubSeq(s, 5, 5) = "-" /\ SubSeq(s, 8, 8) = "-"
    /\ IsDigits(SubSeq(s, 1, 4)) /\ IsDigits(SubSeq(s, 6, 7)) /\ IsDigits(SubSeq(s, 9, 10))
    /\ ParseInt(SubSeq(s, 6, 7)) \in 1..12
    /\ ParseInt(SubSeq(s, 9, 10)) \in 1..31

ToDatetime(s) ==
    [year |-> ParseInt(SubSeq(s, 1, 4)),
     month |-> ParseInt(SubSeq(s, 6, 7)),
     day |-> ParseInt(SubSeq(s, 9, 10))]

-----------------------------------------------------------------------------
(* load_and_preprocess_data *)

\* pd.read_csv: a cell holding one of the missing-value texts is read as NaN
ReadCsvCell(s) == IF s \in NA_VALUES THEN NaN ELSE s

ReadCsv(rows) ==
    [i \in 1..Len(rows) |->
        [idx |-> i - 1,
         Category |-> rows[i].Category,
         Type |-> ReadCsvCell(rows[i].Type),
         Release_Date |-> rows[i].Release_Date,
         Country |-> ReadCsvCell(rows[i].Country)]]

\* Series.fillna(value)
FillNa(v, value) == IF v = NaN THEN value ELSE v

\* rename, to_datetime, dt.year and the two fillna calls on a frame read
Preprocess(raw) ==
    [i \in 1..Len(raw) |->
        LET date == ToDatetime(raw[i].Release_Date)
        IN [idx |-> raw[i].idx,
            Content_Type |-> raw[i].Category,
            Genre |-> FillNa(raw[i].Type, MISSING),
            Release_Date |-> date,
            Release_Year |-> date.year,
            Country |-> FillNa(raw[i].Country, MISSING)]]

YearsOf(table) == {table[i].Release_Year : i \in 1..Len(table)}

\* The mutant of the loader: the missing file is reported and an empty table returned.
LoadNotFoundEmptyTable(file_path) ==
    [status |-> "ok", df |-> Frame(<<>>),
     out |-> << <<"load header">>, <<"error: file not found", file_path>> >>]

LoadNotFound(file_path) ==
    [status |-> "ok", df |-> None,
     out |-> << <<"load header">>, <<"error: file not found", file_path>> >>]

load_and_preprocess_data(file_path) ==
    IF files[file_path] = NoFile
    THEN LoadNotFound(file_path)
    ELSE LET raw == ReadCsv(files[file_path].rows)
         IN IF \E i \in 1..Len(raw) : ~IsDate(raw[i].Release_Date)
            THEN [status |-> "ParseError", df |-> None, out |-> << <<"load header">> >>]
            ELSE LET table == Preprocess(raw)
                 IN [status |-> "ok", df |-> Frame(table),
                     out |-> << <<"load header">>,
                                <<"records", Len(table)>>,
                                IF table = <<>> THEN <<"years", NaN, NaN>>
                                ELSE <<"years", SetMin(YearsOf(table)), SetMax(YearsOf(table))>> >>]

-----------------------------------------------------------------------------
(* explode_data_for_counting *)

Column(row, column) ==
    CASE column = "Country" -> row.Country
      [] column = "Genre" -> row.Genre
      [] column = "Content_Type" -> row.Content_Type

WithSplitValue(row, v) ==
    [idx |-> row.idx, Content_Type |-> row.Content_Type, Genre |-> row.Genre,
     Release_Date |-> row.Release_Date, Release_Year |-> row.Release_Year,
     Country |-> row.Country, Split_Value |-> v]

\* The mutant of the sentinel filter: it keeps every row.
DropNothing(table, column) == table

\* df_temp[df_temp[column] != 'Missing']
DropSentinel(table, column) ==
    SelectSeq(table, LAMBDA r : Column(r, column) # MISSING)

\* assign(Split_Value = column.str.split(', ')).explode('Split_Value')
SplitAndExplode(table, column) ==
    Concat([i \in 1..Len(table) |->
              LET parts == StrSplit(Column(table[i], column), SEPARATOR)
              IN [j \in 1..Len(parts) |-> WithSplitValue(table[i], parts[j])]])

\* The mutant of the trimming: the tags are left as split.
KeepSplitValue(table) == table

\* exploded_df['Split_Value'] = exploded_df['Split_Value'].str.strip()
StripSplitValue(table) ==
    [i \in 1..Len(table) |-> WithSplitValue(table[i], StrStrip(table[i].Split_Value))]

\* The mutant of the expander: no copy is taken and the sentinel rows are
\* dropped from the caller's frame in place.
ExplodeFramesInPlace(table, column) ==
    LET kept == IF column \in {"Country", "Genre"} THEN DropSentinel(table, column) ELSE table
    IN [df |-> kept, exploded_df |-> StripSplitValue(SplitAndExplode(kept, column))]

\* The frames after a call: df is the caller's frame, which the function reads
\* through a copy and never writes; exploded_df is the frame it returns.
ExplodeFrames(table, column) ==
    LET df_temp == table
        kept == IF column \in {"Country", "Genre"} THEN DropSentinel(df_temp, column) ELSE df_temp
    IN [df |-> table, exploded_df |-> StripSplitValue(SplitAndExplode(kept, column))]

explode_data_for_counting(table, column) == ExplodeFrames(table, column)

-----------------------------------------------------------------------------
(* groupby([row key, column key]).size().unstack(fill_value=0) *)

\* The pivoted counts: a row per row key present, a column per column key
\* present, and 0 where a (row key, column key) pair has no record.
\* keys: for each record, its pair <<row key, column key>>
PivotCount(keys) ==
    LET index == {keys[i][1] : i \in 1..Len(keys)}
        columns == {keys[i][2] : i \in 1..Len(keys)}
    IN [index |-> index,
        columns |-> columns,
        cell |-> [k \in index \X columns |->
                    Cardinality({i \in 1..Len(keys) : keys[i] = k})]]

-----------------------------------------------------------------------------
(* objective_1_content_type_evolution *)

\* start_year: the last 11 years when the data reaches past 2014, else all of it
StartYear(index) ==
    IF SetMax(index) > TREND_YEAR THEN SetMax(index) - TREND_SPAN ELSE SetMin(index)

\* The mutant of the window filter: the comparison is strict.
FilterAfterYear(index, start_year) == {y \in index : y > start_year}

\* content_by_year[content_by_year.index >= start_year]
FilterFromYear(index, start_year) == {y \in index : y >= start_year}

\* Series.idxmax(): the first index label, in index order, holding the maximum
IdxMax(series) ==
    SetMin({y \in DOMAIN series : \A z \in DOMAIN series : series[z] <= series[y]})

\* len(df[df['Content_Type'] == content_type])
CountOfType(table, content_type) ==
    Cardinality({i \in 1..Len(table) : table[i].Content_Type = content_type})

objective_1_content_type_evolution(table) ==
    LET content_by_year ==
            PivotCount([i \in 1..Len(table) |->
                          <<table[i].Release_Year, table[i].Content_Type>>])
        header == << <<"objective 1 header">> >>
    IN IF MOVIE \notin content_by_year.columns \/ TV_SHOW \notin content_by_year.columns
       THEN [df |-> table, out |-> header, result |-> [status |-> "KeyError"]]
       ELSE LET index == content_by_year.index
                start_year == StartYear(index)
                filtered == FilterFromYear(index, start_year)
                movies == [y \in index |-> content_by_year.cell[<<y, MOVIE>>]]
                shows == [y \in index |-> content_by_year.cell[<<y, TV_SHOW>>]]
                peak_year_movie == IdxMax(movies)
                peak_year_tv == IdxMax(shows)
            IN [df |-> table,
                out |-> header \o
                    << <<"chart: content by year", SortedInts(filtered)>>,
                       <<"key findings header">>,
                       <<"composition",
                         CountOfType(table, MOVIE), CountOfType(table, TV_SHOW)>>,
                       <<"peak movie", movies[peak_year_movie], peak_year_movie>>,
                       <<"peak tv", shows[peak_year_tv], peak_year_tv>>,
                       <<"rule">> >>,
                result |-> [status |-> "ok",
                            content_by_year |-> content_by_year,
                            start_year |-> start_year,
                            max_year |-> SetMax(index),
                            filtered_index |-> SortedInts(filtered)]]

-----------------------------------------------------------------------------
(* value_counts().nlargest(top_n) *)

RECURSIVE Uniq(_)
Uniq(s) ==
    IF s = <<>> THEN <<>>
    ELSE LET rest == Uniq(SubSeq(s, 1, Len(s) - 1))
         IN IF s[Len(s)] \in Range(rest) THEN rest ELSE Append(rest, s[Len(s)])

\* A stable sort of (tag, count) entries by count, largest first
RECURSIVE StableSortDesc(_)
StableSortDesc(entries) ==
    IF entries = <<>> THEN <<>>
    ELSE LET top == SetMax({entries[i].count : i \in 1..Len(entries)})
             at == SetMin({i \in 1..Len(entries) : entries[i].count = top})
         IN <<entries[at]>> \o
            StableSortDesc(SubSeq(entries, 1, at - 1) \o SubSeq(entries, at + 1, Len(entries)))

\* Series.value_counts(): tags in order of first appearance, then sorted by count
ValueCounts(values) ==
    LET tags == Uniq(values)
    IN StableSortDesc([i \in 1..Len(tags) |->
                         [tag |-> tags[i],
                          count |-> Cardinality({j \in 1..Len(values) : values[j] = tags[i]})]])

\* The mutant of nlargest: it keeps one entry more.
NLargestOneMore(series, n) ==
    SubSeq(series, 1, IF n + 1 < Len(series) THEN n + 1 ELSE Len(series))

\* Series.nlargest(n) of a series sorted largest first: its first n entries
NLargest(series, n) ==
    SubSeq(series, 1, IF n < Len(series) THEN n ELSE Len(series))

SplitValues(table) == [i \in 1..Len(table) |-> table[i].Split_Value]

\* The mutant of the lookup: the count of the first entry, whatever its tag.
SeriesGetFirst(series, key, default) ==
    IF series # <<>> THEN series[1].count ELSE default

\* Series.get(key, default)
SeriesGet(series, key, default) ==
    IF \E i \in 1..Len(series) : series[i].tag = key
    THEN series[CHOOSE i \in 1..Len(series) : series[i].tag = key].count
    ELSE default

TagsOf(series) == {series[i].tag : i \in 1..Len(series)}

-----------------------------------------------------------------------------
(* objective_2_genre_popularity *)

\* rename(columns={'Split_Value': 'Individual_Genre'}, inplace=True), on the exploded frame
RenameToIndividualGenre(table) ==
    [i \in 1..Len(table) |->
        [idx |-> table[i].idx, Content_Type |-> table[i].Content_Type,
         Genre |-> table[i].Genre, Release_Date |-> table[i].Release_Date,
         Release_Year |-> table[i].Release_Year, Country |-> table[i].Country,
         Individual_Genre |-> table[i].Split_Value]]

\* range(max_year - 3, max_year + 1)
RecentYears(max_year) == [i \in 1..(RECENT_SPAN + 1) |-> max_year - RECENT_SPAN + i - 1]

\* sort_values(by=column, ascending=False) with the default, unstable sort:
\* every order of the rows that does not increase along the column
SortedOrders(column) ==
    LET index == DOMAIN column
    IN {s \in [1..Cardinality(index) -> index] :
          /\ \A i, j \in 1..Cardinality(index) : i # j => s[i] # s[j]
          /\ \A i, j \in 1..Cardinality(index) : i < j => column[s[i]] >= column[s[j]]}

\* The outcomes of one call: a set, for the order the sort leaves ties in
objective_2_genre_popularity(table, top_n) ==
    LET frames == explode_data_for_counting(table, "Genre")
        genres_exploded_df == RenameToIndividualGenre(frames.exploded_df)
        overall_genre_counts ==
            NLargest(ValueCounts([i \in 1..Len(genres_exploded_df) |->
                                    genres_exploded_df[i].Individual_Genre]), top_n)
        printed == << <<"objective 2 header">>, <<"top genres", top_n, overall_genre_counts>> >>
    IN IF table = <<>>
       THEN {[df |-> frames.df, out |-> printed,
              result |-> [status |-> "TypeError",
                          overall_genre_counts |-> overall_genre_counts]]}
       ELSE LET max_year == SetMax(YearsOf(table))
                recent_years == RecentYears(max_year)
                recent_genres_df ==
                    SelectSeq(genres_exploded_df, LAMBDA r : r.Release_Year \in Range(recent_years))
                recent_genre_trends ==
                    PivotCount([i \in 1..Len(recent_genres_df) |->
                                  <<recent_genres_df[i].Individual_Genre,
                                    recent_genres_df[i].Release_Year>>])
                focused == recent_genre_trends.index \cap TagsOf(overall_genre_counts)
                latest == [tag \in focused |->
                             recent_genre_trends.cell[<<tag, recent_years[Len(recent_years)]>>]]
            IN IF recent_years[Len(recent_years)] \notin recent_genre_trends.columns
               THEN {[df |-> frames.df, out |-> printed,
                      result |-> [status |-> "KeyError",
                                  overall_genre_counts |-> overall_genre_counts,
                                  recent_years |-> recent_years,
                                  columns |-> recent_genre_trends.columns]]}
               ELSE {[df |-> frames.df,
                      out |-> Append(printed, <<"chart: genre shift", order>>),
                      result |-> [status |-> "ok",
                                  overall_genre_counts |-> overall_genre_counts,
                                  recent_years |-> recent_years,
                                  columns |-> recent_genre_trends.columns,
                                  cell |-> recent_genre_trends.cell,
                                  recent_genre_trends_focused |-> order]] :
                     order \in SortedOrders(latest)}
                    \cup
                    \* plot(kind='bar') of a frame with no row: pandas may draw an
                    \* empty chart or raise, by its version
                    (IF focused # {} THEN {}
                     ELSE {[df |-> frames.df, out |-> printed,
                            result |-> [status |-> "IndexError",
                                        overall_genre_counts |-> overall_genre_counts,
                                        recent_years |-> recent_years,
                                        columns |-> recent_genre_trends.columns]]})

-----------------------------------------------------------------------------
(* objective_3_country_contribution *)

\* rename(columns={'Split_Value': 'Individual_Country'}, inplace=True), on the exploded frame
RenameToIndividualCountry(table) ==
    [i \in 1..Len(table) |->
        [idx |-> table[i].idx, Content_Type |-> table[i].Content_Type,
         Genre |-> table[i].Genre, Release_Date |-> table[i].Release_Date,
         Release_Year |-> table[i].Release_Year, Country |-> table[i].Country,
         Individual_Country |-> table[i].Split_Value]]

\* f"{part / total * 100:.1f}", in tenths of a percent: the nearest tenth, the
\* even one when two are as near (no total below 16 has such a tie)
PercentTenths(part, total) ==
    LET q == (1000 * part) \div total
        r == (1000 * part) % total
    IN IF 2 * r < total THEN q
       ELSE IF 2 * r > total THEN q + 1
       ELSE IF q % 2 = 0 THEN q ELSE q + 1

\* The mutant of the split: the international count is summed over the top
\* countries shown.
CountrySplitOverTop(overall_country_counts, total_content) ==
    LET us_count == SeriesGet(overall_country_counts, UNITED_STATES, 0)
        others == {i \in 1..Len(overall_country_counts) :
                     overall_country_counts[i].tag # UNITED_STATES}
        RECURSIVE Sum(_)
        Sum(S) == IF S = {} THEN 0
                  ELSE LET i == CHOOSE i \in S : TRUE
                       IN overall_country_counts[i].count + Sum(S \ {i})
    IN [us_count |-> us_count, non_us_count |-> Sum(others)]

\* us_count and non_us_count
CountrySplit(overall_country_counts, total_content) ==
    LET us_count == SeriesGet(overall_country_counts, UNITED_STATES, 0)
    IN [us_count |-> us_count, non_us_count |-> total_content - us_count]

objective_3_country_contribution(table, top_n) ==
    LET frames == explode_data_for_counting(table, "Country")
        country_exploded_df == RenameToIndividualCountry(frames.exploded_df)
        overall_country_counts ==
            NLargest(ValueCounts([i \in 1..Len(country_exploded_df) |->
                                    country_exploded_df[i].Individual_Country]), top_n)
        total_content == Len(country_exploded_df)
        split == CountrySplit(overall_country_counts, total_content)
        printed == << <<"objective 3 header">>,
                      <<"top countries", top_n, overall_country_counts>>,
                      <<"chart: top countries", overall_country_counts>>,
                      <<"split header">>,
                      <<"total entries", total_content>> >>
    IN IF total_content = 0
       THEN [df |-> frames.df, out |-> printed,
             result |-> [status |-> "ZeroDivisionError",
                         overall_country_counts |-> overall_country_counts,
                         total_content |-> total_content,
                         us_count |-> split.us_count,
                         non_us_count |-> split.non_us_count]]
       ELSE LET us_pct == PercentTenths(split.us_count, total_content)
                non_us_pct == PercentTenths(split.non_us_count, total_content)
            IN [df |-> frames.df,
                out |-> printed \o << <<"US entries", split.us_count, us_pct>>,
                                      <<"non-US entries", split.non_us_count, non_us_pct>>,
                                      <<"rule">> >>,
                result |-> [status |-> "ok",
                            overall_country_counts |-> overall_country_counts,
                            total_content |-> total_content,
                            us_count |-> split.us_count,
                            non_us_count |-> split.non_us_count,
                            us_pct |-> us_pct,
                            non_us_pct |-> non_us_pct]]

-----------------------------------------------------------------------------
(* The inputs: the CSV files the runs read *)

CsvRow(category, date, country, type) ==
    [Category |-> category, Release_Date |-> date, Country |-> country, Type |-> type]

CsvRows ==
    {CsvRow(MOVIE,   "2020-01-15", "United States",        "Dramas"),
     CsvRow(TV_SHOW, "2020-01-15", "India, United States", "Comedies, Dramas"),
     CsvRow(MOVIE,   "2008-12-31", "India",                "Comedies"),
     CsvRow(MOVIE,   "2020-01-15", "",                     ""),
     CsvRow(TV_SHOW, "2014-06-01", "Canada",               ""),
     CsvRow(TV_SHOW, "2020-01-15", "",                     "Comedies"),
     CsvRow(MOVIE,   "soon",       "India",                "Dramas")}

CsvFiles == UNION {[1..n -> CsvRows] : n \in 0..MaxRows}

Paths == {FILE_PATH}

TopNs == 1..MaxTopN \cup {DEFAULT_TOP_N}

Init ==
    /\ files \in [Paths -> {NoFile} \cup {CsvFile(rows) : rows \in CsvFiles}]
    /\ df = None
    /\ pc = "start"
    /\ out = <<>>
    /\ res1 = NotRun
    /\ res2 = NotRun
    /\ res3 = NotRun
    /\ exploded = NotRun
    /\ loaded = <<>>

-----------------------------------------------------------------------------
(* run_full_analysis, a step per call it makes *)

\* df_raw = load_and_preprocess_data(FILE_PATH); if df_raw is not None: ...
RunLoad ==
    /\ pc = "start"
    /\ LET r == load_and_preprocess_data(FILE_PATH)
       IN /\ out' = out \o r.out
          /\ df' = r.df
          /\ loaded' = IF r.df = None THEN <<>> ELSE r.df.rows
          /\ pc' = IF r.status # "ok" THEN "raised"
                   ELSE IF r.df = None THEN "returned" ELSE "objective 1"
    /\ UNCHANGED <<files, res1, res2, res3, exploded>>

RunObjective1 ==
    /\ pc = "objective 1"
    /\ LET r == objective_1_content_type_evolution(df.rows)
       IN /\ out' = out \o r.out
          /\ df' = Frame(r.df)
          /\ res1' = r.result
          /\ pc' = IF r.result.status = "ok" THEN "objective 2" ELSE "raised"
    /\ UNCHANGED <<files, res2, res3, exploded, loaded>>

RunObjective2 ==
    /\ pc = "objective 2"
    /\ \E r \in objective_2_genre_popularity(df.rows, DEFAULT_TOP_N) :
          /\ out' = out \o r.out
          /\ df' = Frame(r.df)
          /\ res2' = r.result
          /\ pc' = IF r.result.status = "ok" THEN "objective 3" ELSE "raised"
    /\ UNCHANGED <<files, res1, res3, exploded, loaded>>

RunObjective3 ==
    /\ pc = "objective 3"
    /\ LET r == objective_3_country_contribution(df.rows, DEFAULT_TOP_N)
       IN /\ out' = out \o r.out
          /\ df' = Frame(r.df)
          /\ res3' = r.result
          /\ pc' = IF r.result.status = "ok" THEN "complete" ELSE "raised"
    /\ UNCHANGED <<files, res1, res2, exploded, loaded>>

\* The two closing prints
RunComplete ==
    /\ pc = "complete"
    /\ out' = out \o << <<"analysis complete">>, <<"objectives addressed">> >>
    /\ pc' = "returned"
    /\ UNCHANGED <<files, df, res1, res2, res3, exploded, loaded>>

Next == RunLoad \/ RunObjective1 \/ RunObjective2 \/ RunObjective3 \/ RunComplete

Spec == Init /\ [][Next]_vars

-----------------------------------------------------------------------------
(* The functions called one by one: the loader once, then any of the       *)
(* reporters, each at most once, in any order and with any top_n.  An      *)
(* exception ends the call that raised it and not the caller.              *)

CallLoad ==
    /\ pc = "start"
    /\ \E file_path \in Paths :
          LET r == load_and_preprocess_data(file_path)
          IN /\ out' = out \o r.out
             /\ df' = r.df
             /\ loaded' = IF r.df = None THEN <<>> ELSE r.df.rows
             /\ pc' = IF r.status = "ok" /\ r.df # None THEN "loaded" ELSE "no table"
    /\ UNCHANGED <<files, res1, res2, res3, exploded>>

CallObjective1 ==
    /\ pc = "loaded"
    /\ res1 = NotRun
    /\ LET r == objective_1_content_type_evolution(df.rows)
       IN /\ out' = out \o r.out
          /\ df' = Frame(r.df)
          /\ res1' = r.result
    /\ UNCHANGED <<files, pc, res2, res3, exploded, loaded>>

CallObjective2 ==
    /\ pc = "loaded"
    /\ res2 = NotRun
    /\ \E top_n \in TopNs :
          \E r \in objective_2_genre_popularity(df.rows, top_n) :
             /\ out' = out \o r.out
             /\ df' = Frame(r.df)
             /\ res2' = r.result @@ [top_n |-> top_n]
    /\ UNCHANGED <<files, pc, res1, res3, exploded, loaded>>

CallObjective3 ==
    /\ pc = "loaded"
    /\ res3 = NotRun
    /\ \E top_n \in TopNs :
          LET r == objective_3_country_contribution(df.rows, top_n)
          IN /\ out' = out \o r.out
             /\ df' = Frame(r.df)
             /\ res3' = r.result @@ [top_n |-> top_n]
    /\ UNCHANGED <<files, pc, res1, res2, exploded, loaded>>

NextCalls == CallLoad \/ CallObjective1 \/ CallObjective2 \/ CallObjective3

SpecCalls == Init /\ [][NextCalls]_vars

-----------------------------------------------------------------------------
(* explode_data_for_counting called on its own, on tables whose multi-value *)
(* cells are tags joined by the separator                                   *)

\* Tags: none holds the separator
Tags == {"Dramas", " Kids ", "Sci-Fi,", MISSING, ""}

TagLists == UNION {[1..k -> Tags] : k \in 1..MaxTags}

Reverse(s) == [i \in 1..Len(s) |-> s[Len(s) + 1 - i]]

ExplodeInputs ==
    LET tagged(ts) == CsvRow(MOVIE, "2020-01-15", StrJoin(ts, SEPARATOR),
                             StrJoin(Reverse(ts), SEPARATOR))
    IN UNION {{ <<tagged(ts)>>,
                <<CsvRow(TV_SHOW, "2014-06-01", "", "Comedies, Dramas"), tagged(ts)>>,
                <<CsvRow(TV_SHOW, "2014-06-01", "India, Peru", ""), tagged(ts)>> } :
              ts \in TagLists}

Columns == {"Country", "Genre", "Content_Type"}

InitExplode ==
    /\ files = [p \in Paths |-> NoFile]
    /\ df \in {Frame(Preprocess(ReadCsv(rows))) : rows \in ExplodeInputs}
    /\ pc = "loaded"
    /\ out = <<>>
    /\ res1 = NotRun
    /\ res2 = NotRun
    /\ res3 = NotRun
    /\ exploded = NotRun
    /\ loaded = df.rows

ExplodeCall ==
    /\ pc = "loaded"
    /\ exploded = NotRun
    /\ \E column \in Columns :
          LET frames == explode_data_for_counting(df.rows, column)
          IN /\ df' = Frame(frames.df)
             /\ exploded' = [status |-> "ok", column |-> column, rows |-> frames.exploded_df]
    /\ UNCHANGED <<files, pc, out, res1, res2, res3, loaded>>

NextExplode == ExplodeCall

SpecExplode == InitExplode /\ [][NextExplode]_vars

-----------------------------------------------------------------------------
(* What the claims speak of *)

Lines(kind) == SelectSeq(out, LAMBDA line : line[1] = kind)

Printed(kind) == Lines(kind) # <<>>

RowsOfIndex(table, idx) == SelectSeq(table, LAMBDA r : r.idx = idx)

\* The tags of the expansion of a column, counted from the table's cells
TagsIn(table, column) == SplitValues(explode_data_for_counting(table, column).exploded_df)

TagCount(values, tag) == Cardinality({i \in 1..Len(values) : values[i] = tag})

Min(a, b) == IF a < b THEN a ELSE b

-----------------------------------------------------------------------------
(* C1: when the path does not resolve, the loader returns None and prints  *)
(* exactly one error notice, which names the path; run_full_analysis then  *)
(* calls no reporter and never prints the completion message.              *)
C1_NotFoundStopsThePipeline ==
    (files[FILE_PATH] = NoFile /\ pc # "start") =>
        /\ df = None
        /\ Lines("error: file not found") = << <<"error: file not found", FILE_PATH>> >>
        /\ res1 = NotRun /\ res2 = NotRun /\ res3 = NotRun
        /\ ~Printed("objective 1 header")
        /\ ~Printed("objective 2 header")
        /\ ~Printed("objective 3 header")
        /\ ~Printed("analysis complete")
        /\ pc = "returned"

C1_Witness ==
    files[FILE_PATH] = NoFile /\ pc = "returned" /\ Printed("error: file not found")

C4_EveryWindowYearHasARow ==
    res1.status = "ok" =>
        \A y \in res1.start_year..res1.max_year : y \in Range(res1.filtered_index)

RecordsOf(table, year, type) ==
    Cardinality({i \in 1..Len(table) :
                   table[i].Release_Year = year /\ table[i].Content_Type = type})

(* C4, amended: a year of the window has a row exactly when some record    *)
(* has that release year, and the row then holds the count of each of the  *)
(* two content types, 0 for a type the year has no record of; a window     *)
(* year with no record has no row.                                         *)
C4_WindowYearsWithRecordsHaveARow ==
    res1.status = "ok" =>
        \A y \in res1.start_year..res1.max_year :
            /\ y \in Range(res1.filtered_index) <=> y \in YearsOf(df.rows)
            /\ y \in Range(res1.filtered_index) =>
                  \A type \in {MOVIE, TV_SHOW} :
                      res1.content_by_year.cell[<<y, type>>] = RecordsOf(df.rows, y, type)

C4_Witness ==
    /\ res1.status = "ok"
    /\ \E y \in res1.start_year..res1.max_year : y \notin Range(res1.filtered_index)
    /\ \E y \in Range(res1.filtered_index) : res1.content_by_year.cell[<<y, TV_SHOW>>] = 0
    /\ res1.start_year \in Range(res1.filtered_index)

\* A top-N frequency table against the tags it was counted from
IsTopN(series, values, top_n) ==
    /\ Len(series) = Min(top_n, Cardinality(Range(values)))
    /\ Len(series) <= top_n
    /\ \A i, j \in 1..Len(series) : i # j => series[i].tag # series[j].tag
    /\ \A i \in 1..Len(series) :
          series[i].tag \in Range(values) /\ series[i].count = TagCount(values, series[i].tag)
    /\ \A i, j \in 1..Len(series) : i < j => series[i].count >= series[j].count
    /\ \A tag \in Range(values) \ TagsOf(series) :
          \A i \in 1..Len(series) : TagCount(values, tag) <= series[i].count

(* C5: the overall frequency table of the genre reporter and of the        *)
(* country reporter has exactly min(top_n, number of distinct tags)        *)
(* entries, so at most top_n, in non-increasing order of count, and no tag *)
(* left out has a greater count than a tag kept.                           *)
C5_TopNCap ==
    /\ res2 # NotRun =>
          IsTopN(res2.overall_genre_counts, TagsIn(loaded, "Genre"), res2.top_n)
    /\ res3 # NotRun =>
          IsTopN(res3.overall_country_counts, TagsIn(loaded, "Country"), res3.top_n)

C5_Witness ==
    /\ res2 # NotRun /\ res3 # NotRun
    /\ Len(res2.overall_genre_counts) = res2.top_n
    /\ Cardinality(Range(TagsIn(loaded, "Genre"))) > res2.top_n
    /\ Len(res3.overall_country_counts) = res3.top_n
    /\ \E tag \in Range(TagsIn(loaded, "Country")) \ TagsOf(res3.overall_country_counts) :
          TagCount(TagsIn(loaded, "Country"), tag)
              < res3.overall_country_counts[Len(res3.overall_country_counts)].count

Abs(n) == IF n < 0 THEN -n ELSE n

(* C6: us_count + non_us_count = total_content, and the two percentages    *)
(* reported, each the share of total_content rounded to one decimal        *)
(* place, sum to 100.0 within 0.1.                                         *)
C6_SplitAddsUp ==
    res3 # NotRun =>
        /\ res3.total_content = Len(TagsIn(loaded, "Country"))
        /\ res3.us_count + res3.non_us_count = res3.total_content
        /\ res3.status = "ok" =>
              /\ 2 * Abs(res3.us_pct * res3.total_content - 1000 * res3.us_count)
                    <= res3.total_content
              /\ 2 * Abs(res3.non_us_pct * res3.total_content - 1000 * res3.non_us_count)
                    <= res3.total_content
              /\ Abs(res3.us_pct + res3.non_us_pct - 1000) <= 1
              /\ Lines("US entries") = << <<"US entries", res3.us_count, res3.us_pct>> >>
              /\ Lines("non-US entries")
                    = << <<"non-US entries", res3.non_us_count, res3.non_us_pct>> >>

C6_Witness ==
    /\ res3.status = "ok"
    /\ res3.total_content = 3
    /\ res3.us_count = 2
    /\ res3.us_pct = 667 /\ res3.non_us_pct = 333
    /\ Len(res3.overall_country_counts) < Cardinality(Range(TagsIn(loaded, "Country")))

(* C7: no reporter changes the table the loader returned: after any of     *)
(* them has run, in any order, the table is as loaded, and each reporter's *)
(* result is the one it computes from the table as loaded.                 *)
C7_ReportersLeaveTheTableAlone ==
    pc = "loaded" =>
        /\ df = Frame(loaded)
        /\ res1 # NotRun => res1 = objective_1_content_type_evolution(loaded).result
        /\ res2 # NotRun =>
              \E r \in objective_2_genre_popularity(loaded, res2.top_n) :
                  res2 = r.result @@ [top_n |-> res2.top_n]
        /\ res3 # NotRun =>
              res3 = objective_3_country_contribution(loaded, res3.top_n).result
                        @@ [top_n |-> res3.top_n]

C7_Witness ==
    /\ pc = "loaded"
    /\ res1.status = "ok" /\ res2.status = "ok" /\ res3.status = "ok"
    /\ \E i \in 1..Len(df.rows) : df.rows[i].Country = MISSING
    /\ out[1] = <<"load header">>
    /\ out[4] = <<"objective 3 header">>

(* C8: us_count is the number of expanded country entries tagged "United   *)
(* States" when that tag is among the top_n countries selected, and 0,     *)
(* with non_us_count = total_content and no error from the lookup (the     *)
(* total is printed, and the reporter completes unless the total is 0),    *)
(* when it is not, also when the tag occurs in the data and ranks outside  *)
(* the top_n.                                                              *)
C8_UnitedStatesCountedWithinTopN ==
    res3 # NotRun =>
        IF UNITED_STATES \in TagsOf(res3.overall_country_counts)
        THEN res3.us_count = TagCount(TagsIn(loaded, "Country"), UNITED_STATES)
        ELSE /\ res3.us_count = 0
             /\ res3.non_us_count = res3.total_content
             /\ Printed("total entries")
             /\ res3.total_content > 0 => res3.status = "ok"

C8_Witness ==
    /\ res3.status = "ok"
    /\ UNITED_STATES \notin TagsOf(res3.overall_country_counts)
    /\ TagCount(TagsIn(loaded, "Country"), UNITED_STATES) > 0
    /\ res3.us_count = 0
    /\ Printed("non-US entries")

(* C9: the recent-window genre table has a column for each of the four     *)
(* years max_year-3 .. max_year, so that it is sorted by the max_year       *)
(* column, its rows ending in non-increasing order of that column.          *)
C9_FourYearColumnsSortedByLatest ==
    res2 # NotRun =>
        /\ res2.status = "ok"
        /\ res2.recent_years = RecentYears(SetMax(YearsOf(df.rows)))
        /\ res2.columns = Range(res2.recent_years)
        /\ \A i, j \in 1..Len(res2.recent_genre_trends_focused) : i < j =>
              res2.cell[<<res2.recent_genre_trends_focused[i], res2.recent_years[4]>>]
                  >= res2.cell[<<res2.recent_genre_trends_focused[j], res2.recent_years[4]>>]

AllCountriesMissing == \A i \in 1..Len(df.rows) : df.rows[i].Country = MISSING

(* C10: objective_3_country_contribution prints the US and non-US lines    *)
(* only when the expanded country table is not empty; when every record's  *)
(* country is the sentinel, it raises a division by zero after printing    *)
(* the total and before any percentage, and run_full_analysis never prints *)
(* the completion message.                                                 *)
C10_DivisionByZeroWhenAllCountriesMissing ==
    res3 # NotRun =>
        /\ AllCountriesMissing <=> res3.total_content = 0
        /\ (Printed("US entries") \/ Printed("non-US entries")) => ~AllCountriesMissing
        /\ AllCountriesMissing =>
              /\ res3.status = "ZeroDivisionError"
              /\ out[Len(out)] = <<"total entries", 0>>
              /\ ~Printed("US entries") /\ ~Printed("non-US entries")
              /\ ~Printed("analysis complete")
              /\ pc = "raised"
        /\ ~AllCountriesMissing =>
              /\ res3.status = "ok"
              /\ Printed("US entries") /\ Printed("non-US entries")

C10_Witness ==
    /\ res3.status = "ZeroDivisionError"
    /\ pc = "raised"
    /\ Len(df.rows) = 2
    /\ Printed("total entries")

====
